---- MODULE Spec2Model ----
(***************************************************************************)
(* hdk-mdl: the MDL model decoder (src/hdk-mdl/src/lib.rs).                *)
(*                                                                         *)
(* The decoder is modelled as a state machine over a seekable byte stream: *)
(* the stream cursor, the sequential field position inside Model or        *)
(* Element, the stack of RelPtr::read_options activations, and the values  *)
(* decoded so far.  Bytes are 0..255, integers are decoded big-endian from *)
(* their four bytes.                                                       *)
(***************************************************************************)
EXTENDS Integers, Sequences, FiniteSets, TLC

(***************************************************************************)
(* Bounds of the input streams.                                            *)
(***************************************************************************)
MaxElems == 2
MaxFaces == 2
MaxVct == 2

(***************************************************************************)
(* u64 values (stream positions, u32 fields widened with `as u64`) as a    *)
(* pair <<hi, lo>> = hi * 2^24 + lo, 0 <= lo < 2^24: a u32 with its top    *)
(* bit set does not fit a model integer.                                   *)
(***************************************************************************)
Limb == 256 * 256 * 256

U64(n) == <<n \div Limb, n % Limb>>

U64Add(a, n) == LET lo == a[2] + n IN <<a[1] + (lo \div Limb), lo % Limb>>

U64Sum(a, b) == LET lo == a[2] + b[2] IN <<a[1] + b[1] + (lo \div Limb), lo % Limb>>

U64Lt(a, b) == a[1] < b[1] \/ (a[1] = b[1] /\ a[2] < b[2])

U64Le(a, b) == a = b \/ U64Lt(a, b)

(***************************************************************************)
(* Big-endian integers (#[br(big)]).                                       *)
(***************************************************************************)
\* u32::from_be_bytes, as a u64
U32From(b) == <<b[1], b[2] * 65536 + b[3] * 256 + b[4]>>

\* i32::from_be_bytes: two's complement
I32From(b) ==
    (IF b[1] >= 128 THEN b[1] - 256 ELSE b[1]) * Limb + b[2] * 65536 + b[3] * 256 + b[4]

\* the four big-endian bytes of a 32-bit pattern given as a signed integer
BE32(v) == <<(v \div Limb) % 256, (v \div 65536) % 256, (v \div 256) % 256, v % 256>>

(***************************************************************************)
(* Fixed layout.                                                           *)
(***************************************************************************)
\* struct Model, the sequential header fields
ModelFields == <<
    [name |-> "_magic", width |-> 2],
    [name |-> "_version", width |-> 2],
    [name |-> "skeleton_key", width |-> 4],
    [name |-> "joint_count", width |-> 4],
    [name |-> "elements_count", width |-> 4],
    [name |-> "elements_offset", width |-> 4],
    [name |-> "material_count", width |-> 4],
    [name |-> "material_offset", width |-> 4],
    [name |-> "bounds", width |-> 16] >>

\* struct Element, in declaration order
ElementFields == <<
    [name |-> "num_faces", kind |-> "i32", restore |-> FALSE],
    [name |-> "f_offset", kind |-> "i32", restore |-> TRUE],
    [name |-> "indices", kind |-> "relptr", restore |-> FALSE],
    [name |-> "num_vct", kind |-> "i32", restore |-> FALSE],
    [name |-> "vertex_stride", kind |-> "i32", restore |-> FALSE],
    [name |-> "v_offset", kind |-> "i32", restore |-> TRUE],
    [name |-> "vertices", kind |-> "relptr", restore |-> FALSE],
    [name |-> "flags", kind |-> "u32", restore |-> FALSE],
    [name |-> "stream_ofs", kind |-> "u32", restore |-> FALSE],
    [name |-> "m_offset1", kind |-> "u32", restore |-> TRUE],
    [name |-> "material_name", kind |-> "material", restore |-> FALSE],
    [name |-> "vertex_ofs", kind |-> "u32", restore |-> FALSE],
    [name |-> "extra", kind |-> "bytes", restore |-> FALSE] >>

\* SeekFrom::Start(0xC) of mesh_table_ptr
MeshTableSeek == 12

\* #[br(count = 40)] extra
ExtraCount == 40

\* type MatChain = RelPtr<RelPtr<RelPtr<NullString, 0>, 0>, 0x20>
MatChainBias == 32

\* get_positions: stride < 12
PositionBytes == 12

(***************************************************************************)
(* Input streams.  A well-formed stream is: the 44-byte header, the table  *)
(* of n 76-byte element records, then the out-of-line payload (index       *)
(* buffer, vertex buffer, the two inner cells of the material chain, the   *)
(* material name).  The inputs vary the counts, the encoded offsets, the   *)
(* table pointer and the length of the stream.                             *)
(***************************************************************************)
HeaderLen == 44
RecordLen == 76

Fill(n, v) == [i \in 1..n |-> v]

Ramp(n, v) == [i \in 1..n |-> (v + i) % 256]

PayloadLen == 2 * MaxFaces + PositionBytes * MaxVct + 4 + 4 + 3

FullLen(n) == HeaderLen + RecordLen * n + PayloadLen

\* positions of the payload parts in a stream of n records
IndexBuf(n) == HeaderLen + RecordLen * n
VertexBuf(n) == IndexBuf(n) + 2 * MaxFaces
Hop2Cell(n) == VertexBuf(n) + PositionBytes * MaxVct
Hop3Cell(n) == Hop2Cell(n) + 4
NameText(n) == Hop3Cell(n) + 4

\* counts no stream of the inputs can satisfy
HugeCount == 1000
\* an offset far past the end of every input
FarOffset == 65536 * 256

\* the encoded offset of a pointer field at position p: to target t ("ok"),
\* the null sentinel, a target exactly at the end of the stream, or far past it
Encode(kind, p, t, len, bias) ==
    CASE kind = "ok" -> t - p - bias
      [] kind = "null" -> -1
      [] kind = "end" -> len - p - bias
      [] kind = "last" -> len - 1 - p - bias
      [] OTHER -> FarOffset

\* one element record at position s; d describes its counts and offsets
RecordBytes(s, i, d, n, len) ==
    BE32(d.nf) \o BE32(Encode(d.fk, s + 4, IndexBuf(n), len, 0))
    \o BE32(d.nv) \o BE32(d.vs) \o BE32(Encode(d.vk, s + 16, VertexBuf(n), len, 0))
    \o BE32(i) \o BE32(85)
    \o BE32(Encode(d.k1, s + 28, Hop2Cell(n), len, MatChainBias))
    \o BE32(7) \o Fill(ExtraCount, 238)

RECURSIVE TableBytes(_, _, _, _, _)
TableBytes(i, n, b, d, len) ==
    IF i > n THEN <<>>
    ELSE RecordBytes(HeaderLen + RecordLen * (i - 1), i,
                     IF i = b THEN d
                     ELSE [nf |-> 1, fk |-> "ok", nv |-> 1, vs |-> PositionBytes,
                           vk |-> "ok", k1 |-> "ok"],
                     n, len)
         \o TableBytes(i + 1, n, b, d, len)

HeaderBytes(count, ptr) ==
    <<77, 68>> \o <<0, 1>> \o BE32(4660) \o BE32(3) \o BE32(count) \o ptr
    \o BE32(9) \o BE32(11) \o Ramp(16, 64)

PayloadBytes(n, k2, k3, len) ==
    Ramp(2 * MaxFaces, 0) \o Ramp(PositionBytes * MaxVct, 16)
    \o BE32(Encode(k2, Hop2Cell(n), Hop3Cell(n), len, 0))
    \o BE32(Encode(k3, Hop3Cell(n), NameText(n), len, 0))
    \o <<115, 116, 0>>

\* the stream of n records whose record b is described by d, cut to len bytes
StreamOf(n, count, ptr, b, d, k2, k3, len) ==
    SubSeq(HeaderBytes(count, ptr) \o TableBytes(1, n, b, d, len)
           \o PayloadBytes(n, k2, k3, len), 1, len)

IdxCases ==
    ((-1..MaxFaces) \X {"ok"})
    \cup ({0, MaxFaces} \X {"null", "end", "far"})
    \cup {<<HugeCount, "ok">>, <<MaxFaces, "last">>}

VtxCases ==
    ((-1..MaxVct) \X {-1, 0, 4, PositionBytes} \X {"ok"})
    \cup ({MaxVct} \X {PositionBytes} \X {"null", "end", "far"})
    \cup {<<HugeCount, PositionBytes, "ok">>}

HopKinds == {"ok", "null", "end", "far"}

\* the table pointer that puts the table right after the header
TablePtr == BE32(HeaderLen - MeshTableSeek - 4 - 8)

\* streams that differ in the pointer fields of one record
PointerInputs ==
    { StreamOf(n, n, TablePtr, b,
               [nf |-> ic[1], fk |-> ic[2], nv |-> vc[1], vs |-> vc[2], vk |-> vc[3],
                k1 |-> "ok"], "ok", "ok", FullLen(n)) :
        n \in 1..MaxElems, b \in 1..MaxElems, ic \in IdxCases, vc \in VtxCases }

\* streams that differ in the material chain, with the name's terminator cut or not
ChainInputs ==
    { StreamOf(n, n, TablePtr, n,
               [nf |-> f, fk |-> "ok", nv |-> 1, vs |-> PositionBytes, vk |-> "ok",
                k1 |-> k[1]], k[2], k[3], FullLen(n) - cut) :
        n \in 1..MaxElems, f \in {0, 1}, cut \in {0, 1},
        k \in (HopKinds \X HopKinds \X HopKinds) \cup {<<"last", "ok", "ok">>,
                                                     <<"ok", "last", "ok">>} }

\* well-formed streams cut at every length
CutInputs ==
    UNION { { StreamOf(n, n, TablePtr, 0, <<>>, "ok", "ok", len) : len \in 0..FullLen(n) } :
            n \in 0..MaxElems }

\* table pointers: to the first record, at the end of the stream, past it, and
\* patterns with the top bit set
TablePtrs(n) ==
    { TablePtr, BE32(FullLen(n) - MeshTableSeek - 4 - 8), BE32(FullLen(n)),
      BE32(-1), BE32(-20), <<128, 0, 0, 0>>, <<128, 0, 0, 20>> }

\* streams that differ in elements_count and in the table pointer; the counts stay
\* within the records the table holds
TableInputs ==
    UNION { { StreamOf(n, count, ptr, 0, <<>>, "ok", "ok", FullLen(n)) :
                count \in 0..n, ptr \in TablePtrs(n) } : n \in 0..MaxElems }
    \cup UNION { { StreamOf(n, count, BE32(HeaderLen - MeshTableSeek - 4 - 8 + RecordLen),
                            0, <<>>, "ok", "ok", FullLen(n)) :
                      count \in 0..n - 1 } : n \in 1..MaxElems }

Inputs == PointerInputs \cup ChainInputs \cup CutInputs \cup TableInputs

(***************************************************************************)
(* State.                                                                  *)
(***************************************************************************)
VARIABLES
    stream,        \* the bytes of the reader (never written)
    pos,           \* the reader's cursor, a u64
    pc,            \* where the decoder is
    fi,            \* index of the next field of the struct being read
    stack,         \* the activations of RelPtr::read_options, innermost last
    model,         \* the header fields of Model read so far
    base_address,  \* mesh_table_ptr.base_address
    elements,      \* Model.elements decoded so far
    elem,          \* the Element being decoded
    result,        \* "running", "ok" (a Model is returned) or "err"
    resolved,      \* the RelPtr resolution that returned last
    export         \* what the export calls on the returned Model gave

vars == <<stream, pos, pc, fi, stack, model, base_address, elements, elem, result, resolved,
          export>>

\* Option<T> and BinResult<T>
None == [some |-> FALSE, v |-> <<>>]
Some(x) == [some |-> TRUE, v |-> x]
Err == [ok |-> FALSE, v |-> <<>>]
Ok(x) == [ok |-> TRUE, v |-> x]

\* the stream as the reader sees it
file_len == Len(stream)

\* read_exact of n bytes at the cursor succeeds
Readable(n) == U64Le(U64Add(pos, n), U64(file_len))

\* the n bytes at the cursor
Take(n) == SubSeq(stream, pos[2] + 1, pos[2] + n)

NoElement ==
    [at |-> U64(0), num_faces |-> 0, f_offset |-> 0, indices |-> None, num_vct |-> 0,
     vertex_stride |-> 0, v_offset |-> 0, vertices |-> None, flags |-> U64(0),
     stream_ofs |-> U64(0), m_offset1 |-> U64(0), material_name |-> None,
     vertex_ofs |-> U64(0), extra |-> <<>>]

NoResolution ==
    [P |-> 0, bias |-> 0, offset |-> 0, inner |-> [leaf |-> "", count |-> 0, biases |-> <<>>],
     dest |-> "", depth |-> 0, outcome |-> "", target |-> 0, jumped |-> FALSE,
     value |-> None, cursor |-> U64(0)]

Init ==
    /\ stream \in Inputs
    /\ pos = U64(0)
    /\ pc = "Model"
    /\ fi = 1
    /\ stack = <<>>
    /\ model = [f \in {ModelFields[i].name : i \in 1..Len(ModelFields)} |-> <<>>]
    /\ base_address = U64(0)
    /\ elements = <<>>
    /\ elem = NoElement
    /\ result = "running"
    /\ resolved = NoResolution
    /\ export = [status |-> "none", model |-> <<>>,
                 positions |-> [of |-> 0, panic |-> FALSE, v |-> None]]

\* a fixed-width read failed: the error propagates out of Model::read
Fail ==
    /\ pc' = "done"
    /\ result' = "err"

(***************************************************************************)
(* Model: the header.                                                      *)
(***************************************************************************)
\* one sequential field of the header
ModelField ==
    /\ pc = "Model"
    /\ LET f == ModelFields[fi] IN
       IF Readable(f.width)
       THEN /\ model' = [model EXCEPT ![f.name] =
                            IF f.width = 4 THEN U32From(Take(4)) ELSE Take(f.width)]
            /\ pos' = U64Add(pos, f.width)
            /\ fi' = fi + 1
            /\ pc' = IF fi = Len(ModelFields) THEN "mesh_table_ptr" ELSE "Model"
            /\ UNCHANGED result
       ELSE Fail /\ UNCHANGED <<model, pos, fi>>
    /\ UNCHANGED <<export, stream, stack, base_address, elements, elem, resolved>>

BaseAddressNoSkip(dpos, pointer) == U64Sum(dpos, pointer)

\* base_address: dpos + pointer as u64 + 8
BaseAddress(dpos, pointer) == U64Add(U64Sum(dpos, pointer), 8)

TableBaseNextField(s) ==
    BaseAddress(U64(MeshTableSeek + 4), U32From(SubSeq(s, MeshTableSeek + 9, MeshTableSeek + 12)))

\* MeshTablePointer::read_options on the bytes s, entered at 0xC: a u32 is read
\* and dropped, dpos is the position after it, pointer the u32 read there
TableBase(s) ==
    LET dpos == U64(MeshTableSeek + 4)
        pointer == U32From(SubSeq(s, MeshTableSeek + 5, MeshTableSeek + 8))
    IN  BaseAddress(dpos, pointer)

\* mesh_table_ptr under seek_before = Start(0xC), restore_position
MeshTablePointer ==
    /\ pc = "mesh_table_ptr"
    /\ IF U64Le(U64(MeshTableSeek + 8), U64(file_len))
       THEN /\ base_address' = TableBase(stream)
            /\ pc' = "seek_elements"
            /\ UNCHANGED result
       ELSE Fail /\ UNCHANGED base_address
    /\ UNCHANGED <<export, stream, pos, fi, stack, model, elements, elem, resolved>>

SeekElementsSkipped ==
    /\ pc = "seek_elements"
    /\ pc' = "elements"
    /\ UNCHANGED <<export, stream, pos, fi, stack, model, base_address, elements, elem, result, resolved>>

\* seek_before = SeekFrom::Start(mesh_table_ptr.base_address)
SeekElements ==
    /\ pc = "seek_elements"
    /\ pos' = base_address
    /\ pc' = "elements"
    /\ UNCHANGED <<export, stream, fi, stack, model, base_address, elements, elem, result, resolved>>

MoreElementsShort(k, count) == U64Lt(U64(k + 1), count)

\* count = elements_count: another element is read while fewer were read
MoreElements(k, count) == U64Lt(U64(k), count)

\* Vec<Element>: start the next element, or return the Model
NextElement ==
    /\ pc = "elements"
    /\ IF MoreElements(Len(elements), model.elements_count)
       THEN /\ pc' = "Element"
            /\ fi' = 1
            /\ elem' = [NoElement EXCEPT !.at = pos]
            /\ UNCHANGED result
       ELSE /\ pc' = "done"
            /\ result' = "ok"
            /\ UNCHANGED <<fi, elem>>
    /\ UNCHANGED <<export, stream, pos, stack, model, base_address, elements, resolved>>

(***************************************************************************)
(* Element: the fixed-width fields.                                        *)
(***************************************************************************)
\* an i32 or u32 field, peeked when it is under restore_position
ElementInt ==
    /\ pc = "Element"
    /\ fi <= Len(ElementFields)
    /\ ElementFields[fi].kind \in {"i32", "u32"}
    /\ LET f == ElementFields[fi] IN
       IF Readable(4)
       THEN /\ elem' = [elem EXCEPT ![f.name] =
                           IF f.kind = "i32" THEN I32From(Take(4)) ELSE U32From(Take(4))]
            /\ pos' = IF f.restore THEN pos ELSE U64Add(pos, 4)
            /\ fi' = fi + 1
            /\ UNCHANGED <<pc, result>>
       ELSE Fail /\ UNCHANGED <<elem, pos, fi>>
    /\ UNCHANGED <<export, stream, stack, model, base_address, elements, resolved>>

\* #[br(count = 40)] extra: Vec<u8>
ElementExtra ==
    /\ pc = "Element"
    /\ fi <= Len(ElementFields)
    /\ ElementFields[fi].kind = "bytes"
    /\ IF Readable(ExtraCount)
       THEN /\ elem' = [elem EXCEPT !.extra = Take(ExtraCount)]
            /\ pos' = U64Add(pos, ExtraCount)
            /\ fi' = fi + 1
            /\ UNCHANGED <<pc, result>>
       ELSE Fail /\ UNCHANGED <<elem, pos, fi>>
    /\ UNCHANGED <<export, stream, stack, model, base_address, elements, resolved>>

\* the element is complete: it is pushed to the Vec
ElementEnd ==
    /\ pc = "Element"
    /\ fi = Len(ElementFields) + 1
    /\ elements' = Append(elements, elem)
    /\ pc' = "elements"
    /\ UNCHANGED <<export, stream, pos, fi, stack, model, base_address, elem, result, resolved>>

(***************************************************************************)
(* RelPtr<T, BIAS>::read_options.  An activation is a frame; the nested    *)
(* type T is Vec<u8> with its count, NullString, or, while `biases` is not *)
(* empty, another RelPtr whose BIAS is the head of `biases`.               *)
(***************************************************************************)
Frame(bias, inner, dest) ==
    [bias |-> bias, inner |-> inner, dest |-> dest, pos_before |-> 0, return_pos |-> 0,
     offset |-> 0, target |-> 0, jumped |-> FALSE, value_res |-> Err]

Top == stack[Len(stack)]

\* args { count: if num_faces > 0 { num_faces as usize * 2 } else { 0 } }
IndicesCount(e) == IF e.num_faces > 0 THEN e.num_faces * 2 ELSE 0

\* args { count: if num_vct > 0 && vertex_stride > 0 { num_vct * vertex_stride } else { 0 } }
VerticesCount(e) ==
    IF e.num_vct > 0 /\ e.vertex_stride > 0 THEN e.num_vct * e.vertex_stride ELSE 0

\* indices, vertices: RelPtr<Vec<u8>> is read at the cursor
ElementRelPtr ==
    /\ pc = "Element"
    /\ fi <= Len(ElementFields)
    /\ ElementFields[fi].kind = "relptr"
    /\ LET name == ElementFields[fi].name
           count == IF name = "indices" THEN IndicesCount(elem) ELSE VerticesCount(elem)
       IN  stack' = <<Frame(0, [leaf |-> "vec", count |-> count, biases |-> <<>>], name)>>
    /\ pc' = "RelPtr"
    /\ UNCHANGED <<export, stream, pos, fi, model, base_address, elements, elem, result, resolved>>

\* material_name: IndirectMaterial::read_options reads MatChain at the cursor
ElementMaterial ==
    /\ pc = "Element"
    /\ fi <= Len(ElementFields)
    /\ ElementFields[fi].kind = "material"
    /\ stack' = <<Frame(MatChainBias, [leaf |-> "str", count |-> 0, biases |-> <<0, 0>>],
                        ElementFields[fi].name)>>
    /\ pc' = "RelPtr"
    /\ UNCHANGED <<export, stream, pos, fi, model, base_address, elements, elem, result, resolved>>

\* chain.0.and_then(|l2| l2.0).and_then(|l3| l3.0).map(|s| s.to_string())
Unpack(chain) ==
    IF ~chain.some THEN None
    ELSE IF ~chain.v.some THEN None
    ELSE IF ~chain.v.v.some THEN None
    ELSE Some(chain.v.v.v)

\* what the resolution that returns is recorded as
Resolution(f, outcome, value) ==
    [P |-> f.pos_before, bias |-> f.bias, offset |-> f.offset, inner |-> f.inner,
     dest |-> f.dest, depth |-> Len(stack), outcome |-> outcome, target |-> f.target,
     jumped |-> f.jumped, value |-> value, cursor |-> pos]

\* read_options returns res with the cursor at `cursor`: to the enclosing RelPtr,
\* whose closure ends with it, or to the Element (through `?`).  `log` is the
\* resolution as recorded, or `resolved` when the offset field could not be read.
Return(res, cursor, log) ==
    /\ pos' = cursor
    /\ resolved' = IF log = resolved THEN resolved ELSE [log EXCEPT !.cursor = cursor]
    /\ IF Len(stack) > 1
       THEN /\ stack' = [SubSeq(stack, 1, Len(stack) - 1) EXCEPT ![Len(stack) - 1].value_res = res]
            /\ pc' = "restore"
            /\ UNCHANGED <<elem, fi, result>>
       ELSE /\ stack' = <<>>
            /\ IF res.ok
               THEN /\ elem' = [elem EXCEPT ![Top.dest] =
                                   IF Top.dest = "material_name" THEN Unpack(res.v) ELSE res.v]
                    /\ fi' = fi + 1
                    /\ pc' = "Element"
                    /\ UNCHANGED result
               ELSE Fail /\ UNCHANGED <<elem, fi>>

\* if offset < 0
IsNull(offset) == offset < 0

TargetNoBias(pos_before, offset, bias) == pos_before + offset

\* target_i64 = pos_before as i64 + offset as i64 + BIAS
Target(pos_before, offset, bias) == pos_before + offset + bias

\* lines 28-43: the offset field is read; a negative offset or target is null
RelPtrOffset ==
    /\ pc = "RelPtr"
    /\ IF ~Readable(4)
       THEN Return(Err, pos, resolved)
       ELSE LET pos_before == pos[2]
                offset == I32From(Take(4))
                return_pos == pos_before + 4
                target_i64 == Target(pos_before, offset, Top.bias)
                f == [Top EXCEPT !.pos_before = pos_before, !.offset = offset,
                                 !.return_pos = return_pos, !.target = target_i64]
            IN  IF IsNull(offset)
                THEN Return(Ok(None), U64(return_pos), Resolution(f, "null", None))
                ELSE IF target_i64 < 0
                THEN Return(Ok(None), U64(return_pos), Resolution(f, "negative", None))
                ELSE /\ stack' = [stack EXCEPT ![Len(stack)] = f]
                     /\ pos' = U64(return_pos)
                     /\ pc' = "bounds"
                     /\ UNCHANGED <<elem, fi, result, resolved>>
    /\ UNCHANGED <<export, stream, model, base_address, elements>>

AfterLenQueryAtEnd(f) == U64(file_len)

\* the cursor after seek(SeekFrom::End(0)) and seek(SeekFrom::Start(return_pos))
AfterLenQuery(f) == U64(f.return_pos)

InRangeInclusive(target, len) == target <= len

\* not (target >= file_len)
InRange(target, len) == target < len

\* lines 46-50: the bounds check
RelPtrBounds ==
    /\ pc = "bounds"
    /\ IF ~InRange(Top.target, file_len)
       THEN Return(Ok(None), AfterLenQuery(Top), Resolution(Top, "range", None))
       ELSE /\ pos' = AfterLenQuery(Top)
            /\ pc' = "jump"
            /\ UNCHANGED <<stack, elem, fi, result, resolved>>
    /\ UNCHANGED <<export, stream, model, base_address, elements>>

\* lines 53-56 with T = RelPtr: seek to the target and read the nested pointer there
RelPtrJumpPtr ==
    /\ pc = "jump"
    /\ Top.inner.biases # <<>>
    /\ pos' = U64(Top.target)
    /\ stack' = Append([stack EXCEPT ![Len(stack)].jumped = TRUE],
                       Frame(Head(Top.inner.biases),
                             [Top.inner EXCEPT !.biases = Tail(Top.inner.biases)],
                             Top.dest))
    /\ pc' = "RelPtr"
    /\ UNCHANGED <<export, stream, fi, model, base_address, elements, elem, result, resolved>>

\* the position of the first NUL at or after p, or file_len
RECURSIVE NulFrom(_)
NulFrom(p) == IF p >= file_len \/ stream[p + 1] = 0 THEN p ELSE NulFrom(p + 1)

VecReadShort(count, target) ==
    IF target + count <= file_len
    THEN [res |-> Ok(SubSeq(stream, target + 1, target + count)), end |-> target + count]
    ELSE [res |-> Ok(SubSeq(stream, target + 1, file_len)), end |-> file_len]

\* Vec<u8>::read_options with count at target: exactly count bytes, or an error
VecRead(count, target) ==
    IF target + count <= file_len
    THEN [res |-> Ok(SubSeq(stream, target + 1, target + count)), end |-> target + count]
    ELSE [res |-> Err, end |-> file_len]

\* NullString::read_options at target: the bytes before the first NUL, or an error
\* when the stream ends first
NullStringRead(target) ==
    LET q == NulFrom(target) IN
    IF q < file_len
    THEN [res |-> Ok(SubSeq(stream, target + 1, q)), end |-> q + 1]
    ELSE [res |-> Err, end |-> file_len]

\* lines 53-56 with T = Vec<u8> or NullString
RelPtrJumpLeaf ==
    /\ pc = "jump"
    /\ Top.inner.biases = <<>>
    /\ LET r == IF Top.inner.leaf = "vec" THEN VecRead(Top.inner.count, Top.target)
                ELSE NullStringRead(Top.target)
       IN  /\ pos' = U64(r.end)
           /\ stack' = [stack EXCEPT ![Len(stack)].jumped = TRUE,
                                     ![Len(stack)].value_res = r.res]
    /\ pc' = "restore"
    /\ UNCHANGED <<export, stream, fi, model, base_address, elements, elem, result, resolved>>

RestorePosStay(f) == pos

\* reader.seek(SeekFrom::Start(return_pos))
RestorePos(f) == U64(f.return_pos)

ValuePropagate(value_res) == IF value_res.ok THEN Ok(Some(value_res.v)) ELSE Err

\* match value_res { Ok(value) => Ok(RelPtr(Some(value))), Err(_) => Ok(RelPtr(None)) }
Value(value_res) == IF value_res.ok THEN Ok(Some(value_res.v)) ELSE Ok(None)

\* lines 58-63: restore the cursor and return
RelPtrRestore ==
    /\ pc = "restore"
    /\ LET res == Value(Top.value_res) IN
       Return(res, RestorePos(Top),
              IF res.ok
              THEN Resolution(Top, IF res.v.some THEN "value" ELSE "failed", res.v)
              ELSE Resolution(Top, "error", None))
    /\ UNCHANGED <<export, stream, model, base_address, elements>>

(***************************************************************************)
(* export.rs: the export view of a decoded Model.  A call either returns   *)
(* or panics (a slice out of the bounds of its buffer).                    *)
(***************************************************************************)
\* `x as usize` of an i32: x, or 2^64 + x (wrapped) when x is negative
AsUsize(x) == [wrapped |-> x < 0, v |-> x]

\* `x as u32` of an i32: the same 32 bits
AsU32(x) == U32From(BE32(x))

\* raw[start..start + 12] with start = i * stride is inside raw; with a wrapped
\* stride the product is past every buffer (or overflows) for i >= 1
SliceInside(raw, i, stride) ==
    IF stride.wrapped THEN i = 0 /\ PositionBytes <= Len(raw)
    ELSE i * stride.v + PositionBytes <= Len(raw)

\* the three f32 of a position, each as its four big-endian bytes
Position(raw, start) ==
    <<SubSeq(raw, start + 1, start + 4), SubSeq(raw, start + 5, start + 8),
      SubSeq(raw, start + 9, start + 12)>>

\* Element::get_positions: None without vertices or with stride < 12, else the
\* positions at i * stride for i in 0..num_vct as usize; the first slice that is
\* not inside raw panics (a wrapped num_vct runs past every buffer)
GetPositions(e) ==
    IF ~e.vertices.some THEN [panic |-> FALSE, v |-> None]
    ELSE LET raw == e.vertices.v
             stride == AsUsize(e.vertex_stride)
             n == AsUsize(e.num_vct)
         IN  IF ~stride.wrapped /\ stride.v < PositionBytes THEN [panic |-> FALSE, v |-> None]
             ELSE IF n.wrapped \/ \E i \in 0..(n.v - 1) : ~SliceInside(raw, i, stride)
             THEN [panic |-> TRUE, v |-> None]
             ELSE [panic |-> FALSE,
                   v |-> Some([i \in 1..n.v |-> Position(raw, (i - 1) * stride.v)])]

\* Element::get_indices: chunks_exact(2) as big-endian u16
GetIndices(e) ==
    IF ~e.indices.some THEN None
    ELSE LET raw == e.indices.v IN
         Some([k \in 1..(Len(raw) \div 2) |-> raw[2 * k - 1] * 256 + raw[2 * k]])

\* Element::to_export_element
ToExportElement(e) ==
    LET has_mesh == e.num_faces > 0 /\ e.num_vct > 0
        positions == GetPositions(e)
    IN  [panic |-> has_mesh /\ positions.panic,
         v |-> [elem_size |-> AsU32(e.num_faces), unk0 |-> AsU32(e.f_offset),
                name_hash |-> AsU32(e.num_vct), primitive_type |-> AsU32(e.vertex_stride),
                mat_index |-> AsU32(e.v_offset), flags |-> e.flags,
                stream_ofs |-> e.stream_ofs, index_ofs |-> e.m_offset1,
                vertex_ofs |-> e.vertex_ofs,
                mesh |-> IF has_mesh /\ ~positions.panic
                         THEN Some([num_faces |-> AsU32(e.num_faces),
                                    num_vct |-> AsU32(e.num_vct),
                                    vertex_stride |-> AsU32(e.vertex_stride),
                                    material_name |-> e.material_name,
                                    positions |-> positions.v,
                                    indices |-> GetIndices(e)])
                         ELSE None]]

\* Model::to_export on the Model that was returned
ToExport ==
    /\ pc = "done"
    /\ result = "ok"
    /\ export.status = "none"
    /\ LET es == [i \in 1..Len(elements) |-> ToExportElement(elements[i])] IN
       export' = IF \E i \in 1..Len(elements) : es[i].panic
                 THEN [export EXCEPT !.status = "panic"]
                 ELSE [export EXCEPT !.status = "ok",
                                     !.model = [skeleton_key |-> model.skeleton_key,
                                                joint_count |-> model.joint_count,
                                                bounds |-> model.bounds,
                                                elements |-> [i \in 1..Len(elements) |-> es[i].v]]]
    /\ UNCHANGED <<stream, pos, pc, fi, stack, model, base_address, elements, elem, result,
                   resolved>>

\* a caller's get_positions on an element of the Model that was returned
GetPositionsCall ==
    /\ pc = "done"
    /\ result = "ok"
    /\ export.positions.of = 0
    /\ \E i \in 1..Len(elements) :
           LET r == GetPositions(elements[i]) IN
           export' = [export EXCEPT !.positions = [of |-> i, panic |-> r.panic, v |-> r.v]]
    /\ UNCHANGED <<stream, pos, pc, fi, stack, model, base_address, elements, elem, result,
                   resolved>>

Next ==
    \/ ModelField
    \/ MeshTablePointer
    \/ SeekElements
    \/ NextElement
    \/ ElementInt
    \/ ElementRelPtr
    \/ ElementMaterial
    \/ ElementExtra
    \/ ElementEnd
    \/ RelPtrOffset
    \/ RelPtrBounds
    \/ RelPtrJumpPtr
    \/ RelPtrJumpLeaf
    \/ RelPtrRestore
    \/ ToExport
    \/ GetPositionsCall

Spec == Init /\ [][Next]_vars

(***************************************************************************)
(* Properties.                                                             *)
(***************************************************************************)
\* a resolution whose offset field was read has returned
Returned == resolved.outcome # ""

\* C1: every RelPtr resolution whose offset field at P was read returns with the
\* cursor at P + 4, whatever its outcome, at every depth of the material chain.
C1_CursorAfterOffsetField ==
    Returned => resolved.cursor = U64(resolved.P + 4)

\* C1 witness: the innermost hop of a material chain returned after its nested
\* decode (the name) failed
C1_Witness ==
    /\ resolved.outcome = "failed"
    /\ resolved.depth = 3
    /\ resolved.cursor = U64(resolved.P + 4)

\* the nested value of type `inner` can be decoded at position t
DecodesAt(inner, t) ==
    IF inner.biases # <<>> THEN t + 4 <= file_len
    ELSE IF inner.leaf = "vec" THEN t + inner.count <= file_len
    ELSE \E q \in t..(file_len - 1) : stream[q + 1] = 0

\* C2: a resolution at P yields a value iff offset >= 0, 0 <= P + offset + Bias <
\* stream length and the nested decode at that target succeeds; otherwise it
\* yields absent, and it never returns an error.
C2_ValueIffResolvable ==
    Returned =>
        LET t == resolved.P + resolved.offset + resolved.bias IN
        /\ resolved.outcome # "error"
        /\ resolved.value.some <=>
               (/\ resolved.offset >= 0
                /\ 0 <= t
                /\ t < file_len
                /\ DecodesAt(resolved.inner, t))

\* C2 witness: a non-negative offset whose target is exactly the end of the stream
C2_Witness ==
    /\ resolved.outcome = "range"
    /\ resolved.offset >= 0
    /\ resolved.P + resolved.offset + resolved.bias = file_len
    /\ ~resolved.value.some

\* C3: with num_faces <= 0 `indices` is absent and its target is neither sought nor
\* read, and the same for `vertices` with num_vct <= 0 or vertex_stride <= 0,
\* whatever the encoded offset is.
C3_NoAccessWhenCountNotPositive ==
    /\ (resolved.dest = "indices" /\ pc = "Element" /\ elem.num_faces <= 0)
           => (~elem.indices.some /\ ~resolved.jumped)
    /\ (resolved.dest = "vertices" /\ pc = "Element"
        /\ (elem.num_vct <= 0 \/ elem.vertex_stride <= 0))
           => (~elem.vertices.some /\ ~resolved.jumped)

\* Model::read returned a Model
Decoded == pc = "done" /\ result = "ok"

\* the position p of the stream as a model integer (p < 2^24)
Small(p) == p[2]

\* the four bytes at position p
Word(p) == SubSeq(stream, p + 1, p + 4)

\* C4: when decoding succeeds the number of elements is the elements_count read
\* from the header at 0x0C, and element i is the i-th record of the table.
C4_ElementsCountAndOrder ==
    Decoded =>
        /\ U64(Len(elements)) = U32From(Word(12))
        /\ \A i \in 1..Len(elements) :
               /\ elements[i].at = U64Add(base_address, RecordLen * (i - 1))
               /\ elements[i].flags = U32From(Word(Small(base_address) + RecordLen * (i - 1) + 20))

\* C4 witness: a Model of two elements
C4_Witness == Decoded /\ Len(elements) = 2 /\ elements[1].flags # elements[2].flags

\* the text the three hops from the offset field at p1 lead to, or None
ChainText(p1) ==
    LET off1 == I32From(Word(p1))
        p2 == p1 + off1 + 32
    IN  IF ~(off1 >= 0 /\ p2 < file_len /\ p2 + 4 <= file_len) THEN None
        ELSE LET off2 == I32From(Word(p2))
                 p3 == p2 + off2
             IN  IF ~(off2 >= 0 /\ p3 < file_len /\ p3 + 4 <= file_len) THEN None
                 ELSE LET off3 == I32From(Word(p3))
                          p4 == p3 + off3
                      IN  IF ~(off3 >= 0 /\ p4 < file_len) THEN None
                          ELSE IF \A q \in p4..(file_len - 1) : stream[q + 1] # 0 THEN None
                          ELSE LET e == CHOOSE q \in p4..(file_len - 1) :
                                            /\ stream[q + 1] = 0
                                            /\ \A r \in p4..(q - 1) : stream[r + 1] # 0
                               IN  Some(SubSeq(stream, p4 + 1, e))

\* the elements decoded so far, the one being decoded last
Seen == IF pc = "Element" THEN Append(elements, elem) ELSE elements

\* the material chain of e has been read
MaterialRead(e) == e \in {elements[i] : i \in 1..Len(elements)} \/ fi > 11

\* C5: material_name read at P1 is Some(text) iff hop 1 (to P1 + off1 + 0x20), hop 2
\* (to P2 + off2) and hop 3 (to P3 + off3) resolve and a terminated text is at hop
\* 3's target; otherwise it is absent.
C5_MaterialChain ==
    \A i \in 1..Len(Seen) :
        MaterialRead(Seen[i]) =>
            Seen[i].material_name = ChainText(Small(Seen[i].at) + 28)

\* C5 witness: a chain that resolved to the name
C5_Witness ==
    \E i \in 1..Len(elements) : elements[i].material_name = Some(<<115, 116>>)

\* the header (magic through bounds) is in the stream
HeaderFits == file_len >= HeaderLen

\* each of the elements_count records of the table is wholly in the stream
RecordsFit ==
    LET count == U32From(Word(12)) IN
    \/ count = U64(0)
    \/ U64Le(U64Add(TableBase(stream), RecordLen * Small(count)), U64(file_len))

\* C6: decoding fails when the stream ends before a fixed-width field of the header
\* or of one of the elements_count records, and only then: a pointer field that
\* fails does not make it fail.
C6_StructuralFailure ==
    pc = "done" => (result = "err" <=> ~(HeaderFits /\ RecordsFit))

\* C6 witness: the first record was decoded and the stream ends inside a later one
C6_Witness == pc = "done" /\ result = "err" /\ Len(elements) >= 1 /\ HeaderFits

\* the count bytes of the stream at the target of the offset field at p
AtTarget(p, offset, count) == SubSeq(stream, p + offset + 1, p + offset + count)

\* C7: with num_faces > 0 `indices` is absent or exactly the num_faces * 2 bytes at
\* its target, and with num_vct > 0 and vertex_stride > 0 `vertices` is absent or
\* exactly the num_vct * vertex_stride bytes at its target: never a shorter buffer.
C7_BufferExactOrAbsent ==
    \A i \in 1..Len(Seen) :
        LET e == Seen[i] IN
        /\ (e.num_faces > 0 /\ e.indices.some) =>
               /\ Len(e.indices.v) = e.num_faces * 2
               /\ Small(e.at) + 4 + e.f_offset + e.num_faces * 2 <= file_len
               /\ e.indices.v = AtTarget(Small(e.at) + 4, e.f_offset, e.num_faces * 2)
        /\ (e.num_vct > 0 /\ e.vertex_stride > 0 /\ e.vertices.some) =>
               /\ Len(e.vertices.v) = e.num_vct * e.vertex_stride
               /\ Small(e.at) + 16 + e.v_offset + e.num_vct * e.vertex_stride <= file_len
               /\ e.vertices.v = AtTarget(Small(e.at) + 16, e.v_offset,
                                          e.num_vct * e.vertex_stride)

\* C7 witness: an element whose vertex buffer resolved in full and whose index
\* buffer, in range at its start, would run past the end of the stream and is absent
C7_Witness ==
    \E i \in 1..Len(elements) :
        /\ elements[i].num_vct = MaxVct /\ elements[i].vertex_stride = PositionBytes
        /\ elements[i].vertices.some
        /\ elements[i].num_faces > 0 /\ elements[i].f_offset >= 0
        /\ Small(elements[i].at) + 4 + elements[i].f_offset < file_len
        /\ ~elements[i].indices.some

\* mesh_table_ptr has been read
Located == HeaderFits /\ pc \notin {"Model", "mesh_table_ptr"}

\* C8 (as amended): base_address = dpos + pointer + 8 with dpos = 0x10 and pointer
\* the four bytes at 0x10 as a big-endian unsigned 32-bit integer, for every
\* pattern, the top bit set or not.
C8_BaseAddressUnsigned ==
    Located => base_address = U64Add(U64Sum(U64(16), U32From(Word(16))), 8)

\* C8 witness: a pointer with the top bit set
C8_Witness == Located /\ stream[17] >= 128 /\ U64Lt(U64(file_len), base_address)

\* C8 as claimed: pointer is the four bytes at 0x10 as a big-endian signed integer.
C8_BaseAddressSigned ==
    Located => /\ 16 + I32From(Word(16)) + 8 >= 0
               /\ base_address = U64(16 + I32From(Word(16)) + 8)

\* the table's base address is at or beyond the end of the stream
BaseOutOfRange == U64Le(U64(file_len), base_address)

\* C9 (as amended): when base_address is at or beyond the end of the stream and
\* elements_count is at least 1, decoding fails and returns no Model.
C9_OutOfRangeTableFails ==
    (Located /\ pc = "done" /\ BaseOutOfRange /\ model.elements_count # U64(0))
        => result = "err"

\* C9 witness: a table at the end of the stream with one element to read
C9_Witness ==
    /\ Located /\ pc = "done" /\ BaseOutOfRange
    /\ model.elements_count = U64(1) /\ result = "err"

\* C9 as claimed: for every value of elements_count.
C9_OutOfRangeTableAlwaysFails ==
    (Located /\ pc = "done" /\ BaseOutOfRange) => result = "err"

\* the stream with its four bytes at position p replaced by b
Patch(p, b) == [i \in 1..file_len |-> IF i - 1 \in p..(p + 3) THEN b[i - p] ELSE stream[i]]

\* C10 (as amended): the base address is 0x18 + the header field elements_offset
\* (the locator's pointer is that field's bytes), and no other field enters it.
C10_BaseFromElementsOffset ==
    /\ Located => base_address = U64Add(model.elements_offset, 24)
    /\ (Located /\ pc = "seek_elements") =>
           \A p \in {0, 4, 8, 12, 20, 24, 28, 32, 36, 40} :
               TableBase(Patch(p, <<0, 0, 0, 0>>)) = base_address

\* C10 witness: a table that does not start where the default pointer puts it
C10_Witness == Located /\ base_address = U64(HeaderLen + RecordLen)

\* C10 as claimed: streams that differ only in the four bytes of elements_offset
\* have the same base address.
C10_BaseIgnoresElementsOffset ==
    (Located /\ pc = "seek_elements") =>
        \A b \in {<<0, 0, 0, 0>>, <<0, 0, 0, 20>>} : TableBase(Patch(16, b)) = base_address

\* the distance of field fi of a record from the record's start (0x00 num_faces,
\* 0x04 indices, 0x08 num_vct, 0x0C vertex_stride, 0x10 vertices, 0x14 flags,
\* 0x18 stream_ofs, 0x1C material, 0x20 vertex_ofs, 0x24 extra), a peeked field
\* sharing the place of the pointer after it, and last the record's end
FieldAt == <<0, 4, 4, 8, 12, 16, 16, 20, 24, 28, 28, 32, 36, 76>>

\* C11: an Element decoded from position S leaves the cursor at S + 76, every
\* field before that being read at its fixed distance from S whether or not the
\* pointers resolved and in spite of the three peeks; so element i is decoded
\* from base_address + 76 * i.
C11_CursorAfterElement ==
    /\ pc = "Element" => pos = U64Add(elem.at, FieldAt[fi])
    /\ (pc = "elements" /\ elements # <<>>) =>
           pos = U64Add(base_address, 76 * Len(elements))
    /\ pc \in {"Element", "RelPtr", "bounds", "jump", "restore"} =>
           elem.at = U64Add(base_address, 76 * Len(elements))

\* C11 witness: the second record is decoded to its end, its index pointer null
\* and its vertex buffer and material name resolved
C11_Witness ==
    /\ pc = "Element" /\ fi = Len(ElementFields) + 1
    /\ Len(elements) = 1
    /\ ~elem.indices.some /\ elem.vertices.some /\ elem.material_name.some
    /\ pos = U64Add(elem.at, 76)

\* C12: on every Element of a decoded Model get_positions, and with it
\* to_export_element and Model::to_export, completes: it returns None when the
\* vertices are absent or vertex_stride < 12, and otherwise every slice
\* raw[i * stride .. i * stride + 12], i < num_vct, is inside the buffer; no call
\* panics.
C12_GetPositionsNeverPanics ==
    /\ export.status # "panic"
    /\ export.positions.of # 0 =>
           LET e == elements[export.positions.of] IN
           /\ ~export.positions.panic
           /\ (~e.vertices.some \/ e.vertex_stride < 12) => export.positions.v = None
           /\ (e.vertices.some /\ e.vertex_stride >= 12) =>
                  \A i \in 0..(e.num_vct - 1) :
                      i * e.vertex_stride + 12 <= Len(e.vertices.v)

====
